---- MODULE Spec2Model ----
(***************************************************************************)
(* Job-lifecycle tracker of the document generator backend.                *)
(*                                                                         *)
(* Two builds of the same service are modelled in one state machine:       *)
(*   program = "server"        src/server.py       (in-memory dict)        *)
(*   program = "server_redis"  src/server_redis.py (Redis with a fallback  *)
(*                                                  in-memory dict)        *)
(* The task-workflow example (src/workflow_api_example.py) is a third      *)
(* program, modelled by the variable wf.                                   *)
(*                                                                         *)
(* Python dicts are reference objects: job_statuses.get(id) hands out the  *)
(* stored dict itself, so the model keeps a heap of dict objects and the   *)
(* stores map a job id to an object id.  A value read from Redis is a      *)
(* fresh private copy (json.loads).  Every access to shared state by a     *)
(* thread is one step; the steps of different threads interleave freely    *)
(* (Flask runs threaded=True, each job runs in its own daemon thread).     *)
(***************************************************************************)
EXTENDS Integers, Sequences, FiniteSets, TLC

VARIABLES
    program,        \* which program runs: "server", "server_redis" or
                    \* "workflow_api_example"
    USE_REDIS,      \* server_redis.py:40/44, decided once at import
    redisUp,        \* whether a Redis operation issued now succeeds
    flips,          \* how often the Redis connection changed state so far
    heap,           \* dict objects of the process: Oid -> record or None
    job_statuses,   \* server.py:19 job_statuses / server_redis.py:28 job_statuses_fallback
    redis,          \* the keys job:{id} held by the Redis server
    expires,        \* the time at which Redis drops each key (0: no key)
    now,            \* wall clock: time.time() * 1000
    sweeper,        \* the cleanup_old_jobs thread
    threads,        \* the Stage Runner threads, one per creation request
    cancelReq,      \* the cancel request being served
    resp,           \* the response of the last finished HTTP request
    stream,         \* the status stream (GET /api/status/<job_id>/stream)
    hist,           \* history of each job id, for stating the properties
    wf              \* workflow_api_example.py: the workflow, its processor
                    \* thread and its event stream

vars == <<program, USE_REDIS, redisUp, flips, heap, job_statuses, redis, expires,
          now, sweeper, threads, cancelReq, resp, stream, hist, wf>>

-----------------------------------------------------------------------------
(* Bounds of the model *)

\* job ids that requests may name
MaxJobs == 2
\* job ids the id generator hands out in one run
MaxFresh == 1
\* creation requests (generate + refine) served in one run of server.py
MaxCreates == 2
\* creation requests served in one run of the specifications other than Spec
MaxCreatesSingle == 1
\* cancel requests served in one run
MaxCancels == 1
\* cancel requests served where cancelling is repeated
MaxRepeatCancels == 2
\* ticks modelled at the start of each stage; the last tick of the stage is
\* always modelled, the ticks in between repeat the same check/write pair
MaxTicks == 1
\* changes of the Redis connection state (up -> down, down -> up) in one run
MaxFlips == 1
\* snapshots of one stream that are counted; later ones leave the count as is
MaxSnapshots == 2
\* clock steps (hours) of one run
MaxClock == 3

JobIds == 1..MaxJobs
Threads == 1..MaxCreates
\* a store slot per job id, a local reference per runner and one for cancel
Oids == 1..(MaxJobs + MaxCreates + 1)

-----------------------------------------------------------------------------
(* Values *)

\* Python None where a dict is expected: a missing record
None == [none |-> TRUE]
\* Python None where a string is expected: a missing JSON field or dict key
NoneStr == "None"

\* "if not prompt" (server.py:105), "if full_doc_html" (server.py:494)
Truthy(v) == v # NoneStr /\ v # ""

TerminalStages == {"completed", "failed"}

\* the prompts a creation request may carry: absent, empty, a real one
Prompts == {NoneStr, "", "Climate report"}
\* fullDocHtml values of a refinement request
FullDocs == {NoneStr, "<p>Draft</p>"}
\* a fullDocHtml that is a JSON number (request.get_json() hands it on as an
\* int): truthy, and not a str
NumberDoc == "json:5"
IsStr(v) == v # NumberDoc
AnyDocs == FullDocs \cup {NumberDoc}

\* server.py:505-523 generate_mock_document
generate_mock_document(prompt) ==
    "<h1>Generated Document</h1><p>Based on prompt: " \o prompt \o "</p>"

\* server.py:351-384, server_redis.py:441-474
GenStages == <<
    [stage |-> "analyzing", progress |-> 10, duration |-> 300,
     message |-> "Analyzing prompt and gathering context...",
     step |-> "Analyzing input",
     details |-> <<"Parsing prompt structure", "Identifying key topics",
                   "Determining document structure">>],
    [stage |-> "generating", progress |-> 40, duration |-> 900,
     message |-> "Generating document content...",
     step |-> "Content generation",
     details |-> <<"Creating outline", "Generating introduction",
                   "Writing main sections", "Adding supporting details">>],
    [stage |-> "formatting", progress |-> 75, duration |-> 480,
     message |-> "Formatting and styling document...",
     step |-> "Formatting",
     details |-> <<"Applying styles", "Formatting headings",
                   "Adding spacing and layout">>],
    [stage |-> "finalizing", progress |-> 90, duration |-> 120,
     message |-> "Finalizing document and generating PDF...",
     step |-> "Finalizing",
     details |-> <<"Quality checks", "Generating PDF", "Creating preview">>] >>

\* server.py:469-473, server_redis.py:555-559
RefStages == <<
    [stage |-> "analyzing", progress |-> 20, duration |-> 3,
     message |-> "Analyzing content..."],
    [stage |-> "generating", progress |-> 60, duration |-> 7,
     message |-> "Refining content..."],
    [stage |-> "finalizing", progress |-> 95, duration |-> 2,
     message |-> "Finalizing changes..."] >>

\* server.py:391 speed_multiplier (DEMO_MODE is True)
speed_multiplier == 60

\* server.py:422  updates = int((duration*1000/speed_multiplier) / update_interval)
\* with update_interval = 2000/speed_multiplier.  Python computes this in
\* binary floating point: 300 -> 150.0, but 900 -> 449.99999999999994,
\* 480 -> 239.99999999999997 and 120 -> 59.99999999999999, which int()
\* truncates to 449, 239 and 59.
updates(i) == <<150, 449, 239, 59>>[i]

\* the ticks of stage i that the model performs, in order
TickSeq(i) ==
    [k \in 1..(MaxTicks + 1) |-> IF k <= MaxTicks THEN k - 1 ELSE updates(i) - 1]

\* ticks slept through before stage i is entered
TicksBefore(i) == IF i = 1 THEN 0
                  ELSE IF i = 2 THEN updates(1)
                  ELSE IF i = 3 THEN updates(1) + updates(2)
                  ELSE updates(1) + updates(2) + updates(3)

\* server.py:402  total_duration in ms
total_duration ==
    ((GenStages[1].duration + GenStages[2].duration + GenStages[3].duration
        + GenStages[4].duration) * 1000) \div speed_multiplier

\* server.py:403/436  max(0, int((total_duration - elapsed) / 1000)), the
\* elapsed time being the time slept so far: n ticks of 2000/60 ms each
\* (kept exact in thirds of a millisecond)
remaining_time(n) ==
    LET r == (3 * total_duration - 100 * n) \div 3000
    IN  IF r > 0 THEN r ELSE 0

\* server.py:431  next_stage_progress
next_stage_progress(i) == IF i + 1 <= Len(GenStages) THEN GenStages[i + 1].progress ELSE 100

\* server.py:438-441  min(next_stage_progress - 1, int(progress + increment))
Min(a, b) == IF a < b THEN a ELSE b
tick_progress(i, j) ==
    Min(next_stage_progress(i) - 1,
        GenStages[i].progress
          + ((next_stage_progress(i) - GenStages[i].progress) * (j + 1)) \div updates(i))

\* seconds slept before refinement stage i is entered
RefElapsed(i) == IF i = 1 THEN 0
                 ELSE IF i = 2 THEN RefStages[1].duration
                 ELSE RefStages[1].duration + RefStages[2].duration

\* server.py:486  max(0, 12 - int(time.time() - start_time))
ref_remaining(i) == IF 12 - RefElapsed(i) > 0 THEN 12 - RefElapsed(i) ELSE 0

\* server.py:114-125, server_redis.py:207-219  the initial generation record
InitialGeneration(job_id, t) ==
    [jobId |-> job_id, stage |-> "initializing", progress |-> 0,
     message |-> "Starting document generation...", startTime |-> t,
     estimatedTimeRemaining |-> 1800, currentStep |-> "Initializing",
     totalSteps |-> 5, completedSteps |-> 0,
     details |-> <<"Job created", "Validating prompt">>,
     docHtml |-> NoneStr, pdfUrl |-> NoneStr, _server |-> NoneStr]

\* server.py:162-173, server_redis.py:256-267  the initial refinement record
InitialRefinement(job_id, t) ==
    [jobId |-> job_id, stage |-> "analyzing", progress |-> 5,
     message |-> "Analyzing content for refinement...", startTime |-> t,
     estimatedTimeRemaining |-> 900, currentStep |-> "Analyzing",
     totalSteps |-> 4, completedSteps |-> 0,
     details |-> <<"Refinement started", "Analyzing existing content">>,
     docHtml |-> NoneStr, pdfUrl |-> NoneStr, _server |-> NoneStr]

-----------------------------------------------------------------------------
(* The Status Store *)

\* a local variable holding a status: a reference to a dict object of the
\* process (obj), a private copy decoded from Redis (val), or None
NoneRef == [obj |-> 0, val |-> None]
Deref(h, r) == IF r.obj # 0 THEN h[r.obj] ELSE r.val

\* server.py:45 job_statuses.get(job_id)
\* server_redis.py:61-70 get_job_status: the Redis value decoded into a fresh
\* dict; on a Redis error, or without Redis, the dict held by the fallback map
get_job_status(job_id) ==
    IF USE_REDIS /\ redisUp
    THEN [obj |-> 0, val |-> redis[job_id]]
    ELSE [obj |-> job_statuses[job_id], val |-> None]

\* no store holds a record under job_id
NoRecord(j) == job_statuses[j] = 0 /\ redis[j] = None

\* the record a reader of job_id is handed in the current state
Rec(job_id) == Deref(heap, get_job_status(job_id))

\* the smallest object id not in use
FreeOid(h) == CHOOSE o \in Oids : h[o] = None /\ \A p \in Oids : p < o => h[p] # None

\* server_redis.py:79  setex(..., 7200, ...): the key lives 2 hours from its
\* last write, in milliseconds like the clock
RedisTtl == 7200 * 1000

\* a store with one slot shared by every id that has a record: a put under
\* job_id replaces the record of each of them
set_job_status_OneSlot(h, job_id, r) ==
    IF USE_REDIS /\ redisUp
    THEN [h |-> h, js |-> job_statuses,
          rd |-> [j \in JobIds |->
                    IF j = job_id \/ redis[j] # None THEN Deref(h, r) ELSE None],
          ex |-> [expires EXCEPT ![job_id] = now + RedisTtl]]
    ELSE IF r.obj # 0
    THEN [h |-> h,
          js |-> [j \in JobIds |->
                    IF j = job_id \/ job_statuses[j] # 0 THEN r.obj ELSE 0],
          rd |-> redis, ex |-> expires]
    ELSE LET o == FreeOid(h)
         IN  [h |-> [h EXCEPT ![o] = r.val],
              js |-> [j \in JobIds |->
                        IF j = job_id \/ job_statuses[j] # 0 THEN o ELSE 0],
              rd |-> redis, ex |-> expires]

\* server.py:415 job_statuses[job_id] = status
\* server_redis.py:73-86 set_job_status: SETEX of the serialized status; on a
\* Redis error, or without Redis, the dict itself goes into the fallback map.
\* Yields the heap, the map and the Redis keys after the call.
set_job_status(h, job_id, r) ==
    IF USE_REDIS /\ redisUp
    THEN [h |-> h, js |-> job_statuses,
          rd |-> [redis EXCEPT ![job_id] = Deref(h, r)],
          ex |-> [expires EXCEPT ![job_id] = now + RedisTtl]]
    ELSE IF r.obj # 0
    THEN [h |-> h, js |-> [job_statuses EXCEPT ![job_id] = r.obj], rd |-> redis,
          ex |-> expires]
    ELSE LET o == FreeOid(h)
         IN  [h |-> [h EXCEPT ![o] = r.val],
              js |-> [job_statuses EXCEPT ![job_id] = o], rd |-> redis,
              ex |-> expires]

\* status.update(...) / status[key] = value on the dict a local names: an
\* object of the process is changed in place, a private copy stays private
UpdateHeap(h, r, new) == IF r.obj # 0 THEN [h EXCEPT ![r.obj] = new] ELSE h
UpdateRef(r, new) == IF r.obj # 0 THEN r ELSE [r EXCEPT !.val = new]

\* objects no store slot and no local variable refers to are dropped
Referenced(js, th, cr) ==
    {js[j] : j \in JobIds} \cup {th[t].status.obj : t \in Threads} \cup {cr.status.obj}
Collect(h, js, th, cr) ==
    [o \in Oids |-> IF o \in Referenced(js, th, cr) THEN h[o] ELSE None]

-----------------------------------------------------------------------------
(* The Stage Runner threads *)

IdleThread ==
    [kind |-> "none", job_id |-> 0, phase |-> "none", step |-> "none",
     i |-> 0, k |-> 0, status |-> NoneRef, current_details |-> <<>>,
     prompt |-> NoneStr, full_doc_html |-> NoneStr]

\* threading.Thread(target=process_document_generation, args=(job_id, prompt))
\* server.py:131-133, about to run line 395
GenThread(job_id, prompt) ==
    [IdleThread EXCEPT !.kind = "gen", !.job_id = job_id, !.phase = "stage",
                       !.step = "check", !.i = 1, !.prompt = prompt]

\* threading.Thread(target=process_refinement, ...) server.py:176-181,
\* about to run line 478
RefThread(job_id, full_doc_html) ==
    [IdleThread EXCEPT !.kind = "ref", !.job_id = job_id, !.phase = "stage",
                       !.step = "check", !.i = 1, !.full_doc_html = full_doc_html]

NStages(th) == IF th.kind = "gen" THEN Len(GenStages) ELSE Len(RefStages)

\* the statement a thread runs next once the statement at (phase, i, k) is done
\* server.py:393/424 (the stage loop and the tick loop), 477 (refinement)
AfterStage(th) ==
    IF th.kind = "gen" /\ updates(th.i) > 0
    THEN [th EXCEPT !.phase = "tick", !.step = "check", !.k = 1]
    ELSE IF th.i < NStages(th)
    THEN [th EXCEPT !.phase = "stage", !.step = "check", !.i = th.i + 1, !.k = 0]
    ELSE [th EXCEPT !.phase = "final", !.step = "check", !.k = 0]

\* server.py:429 "break" leaves the tick loop only: the stage loop goes on
AfterTicks(th) ==
    IF th.i < NStages(th)
    THEN [th EXCEPT !.phase = "stage", !.step = "check", !.i = th.i + 1, !.k = 0]
    ELSE [th EXCEPT !.phase = "final", !.step = "check", !.k = 0]

AfterTick(th) ==
    IF th.k < Len(TickSeq(th.i))
    THEN [th EXCEPT !.step = "check", !.k = th.k + 1]
    ELSE AfterTicks(th)

\* server.py:399/480 "break" leaves the stage loop
AfterBreak(th) == [th EXCEPT !.phase = "final", !.step = "check", !.k = 0]

Finished(th) == [th EXCEPT !.phase = "done", !.step = "done", !.k = 0,
                           !.status = NoneRef, !.current_details = <<>>]

AfterWrite(th) ==
    LET c == [th EXCEPT !.status = NoneRef, !.current_details = <<>>]
    IN  IF th.phase = "stage" THEN AfterStage(c)
        ELSE IF th.phase = "tick" THEN AfterTick(c)
        ELSE Finished(c)

\* server.py:81/328 "status.get('stage') in ['completed', 'failed']"
IsTerminal(s) == s # None /\ s.stage \in TerminalStages

\* server.py:397/428 "not status or status.get('stage') == 'failed'"
\* server.py:449/493 "final_status and final_status.get('stage') != 'failed'"
MayWrite(s) == s # None /\ s.stage # "failed"

\* server.py:406-414  the stage-entry write of the generation plan;
\* completed_steps (server.py:387, 416) equals the 1-based stage index
GenStageEntry(th, s, details) ==
    [s EXCEPT !.stage = GenStages[th.i].stage,
              !.progress = GenStages[th.i].progress,
              !.message = GenStages[th.i].message,
              !.currentStep = GenStages[th.i].step,
              !.completedSteps = th.i,
              !.estimatedTimeRemaining = remaining_time(TicksBefore(th.i)),
              !.details = details \o GenStages[th.i].details]

\* server.py:431-442  the tick write
GenTick(th, s, details) ==
    [s EXCEPT !.progress = tick_progress(th.i, TickSeq(th.i)[th.k]),
              !.estimatedTimeRemaining =
                  remaining_time(TicksBefore(th.i) + TickSeq(th.i)[th.k] + 1)]

\* server.py:451-460  the completion write of the generation plan
GenCompletion(th, s, details) ==
    [s EXCEPT !.stage = "completed", !.progress = 100,
              !.message = "Document generation completed successfully!",
              !.completedSteps = 5, !.estimatedTimeRemaining = 0,
              !.details = details \o <<"Generation complete">>,
              !.docHtml = generate_mock_document(th.prompt),
              !.pdfUrl = "/api/pdf/" \o ToString(th.job_id)]

\* server.py:482-487  the stage-entry write of the refinement plan
RefStageEntry(th, s, details) ==
    [s EXCEPT !.stage = RefStages[th.i].stage,
              !.progress = RefStages[th.i].progress,
              !.message = RefStages[th.i].message,
              !.estimatedTimeRemaining = ref_remaining(th.i)]

\* server.py:494-501  the completion write of the refinement plan
RefCompletion(th, s, details) ==
    [s EXCEPT !.stage = "completed", !.progress = 100,
              !.message = "Refinement completed!",
              !.estimatedTimeRemaining = 0,
              !.docHtml = IF Truthy(th.full_doc_html)
                          THEN th.full_doc_html \o "<p>Refined content added.</p>"
                          ELSE "<p>Refined content</p>"]

\* the fields a thread writes at its current statement, applied to status s
StatusUpdate(th, s, details) ==
    IF th.kind = "gen" /\ th.phase = "stage" THEN GenStageEntry(th, s, details)
    ELSE IF th.kind = "gen" /\ th.phase = "tick" THEN GenTick(th, s, details)
    ELSE IF th.kind = "gen" THEN GenCompletion(th, s, details)
    ELSE IF th.phase = "stage" THEN RefStageEntry(th, s, details)
    ELSE RefCompletion(th, s, details)

-----------------------------------------------------------------------------
(* Initial state: the process has started and served nothing yet *)

NoResponse == [op |-> "none", job_id |-> 0, code |-> 0, message |-> ""]
IdleCancel == [pc |-> "idle", job_id |-> 0, status |-> NoneRef, served |-> 0]
\* runnerSet: the status that the last set_job_status of a Stage Runner stored
\* under the id (server_redis.py:94), and the runner; NoSet once another writer
\* has written under the id
NoSet == [by |-> 0, status |-> None]

NoHistory == [creates |-> 0, cancelAsked |-> FALSE, cancelled |-> FALSE,
              cancelProgress |-> 0, runnerSet |-> NoSet]

\* server.py:19, server_redis.py:27-44
InitStore ==
    /\ heap = [o \in Oids |-> None]
    /\ job_statuses = [j \in JobIds |-> 0]
    /\ redis = [j \in JobIds |-> None]
    /\ expires = [j \in JobIds |-> 0]
    /\ redisUp = USE_REDIS
    /\ flips = 0
    /\ now = 0

\* server.py:546-548  the cleanup thread is started with the process
\* server_redis.py:634-637  only when Redis was not found at startup
NoSweeper == [pc |-> "off", due |-> FALSE, used |-> 0, job_ids_to_delete |-> <<>>]
StartedSweeper == [NoSweeper EXCEPT !.pc = "sleeping"]
InitSweeper ==
    sweeper = IF program = "server" \/ ~USE_REDIS THEN StartedSweeper ELSE NoSweeper

NoStream == [pc |-> "idle", job_id |-> 0, absent |-> FALSE, notFound |-> 0,
             snapshots |-> 0, terminals |-> 0]

\* workflow_api_example.py:27  workflows is empty, no processor thread and no
\* event stream exist.  One workflow id is modelled: stored says whether
\* workflows holds it, status is workflow['status'], parent and children are
\* the statuses of workflow['tasks'][0] and of its children.
NoWorkflow ==
    [stored |-> FALSE, status |-> "none", parent |-> "none", children |-> <<>>,
     proc |-> [pc |-> "off", i |-> 0],
     events |-> [pc |-> "idle", last_task_count |-> 0, current_count |-> 0,
                 k |-> 0, complete |-> FALSE, afterDone |-> FALSE],
     got |-> FALSE]

InitRequests ==
    /\ stream = NoStream
    /\ threads = [t \in Threads |-> IdleThread]
    /\ cancelReq = IdleCancel
    /\ resp = NoResponse
    /\ hist = [j \in JobIds |-> NoHistory]
    /\ wf = NoWorkflow

\* src/server.py
Init ==
    /\ program = "server"
    /\ USE_REDIS = FALSE
    /\ InitStore
    /\ InitSweeper
    /\ InitRequests

-----------------------------------------------------------------------------
(* Steps of a Stage Runner thread *)

WriteStep == IF program = "server" THEN "write" ELSE "get"

\* server.py:395-399, 427-429, 447-449, 478-480, 492-493
\* server_redis.py:485-489, 516-518, 534-536, 564-566, 577-578
\* read the status and decide whether to write
RunnerCheck(t) ==
    LET th == threads[t]
        r  == get_job_status(th.job_id)
        s  == Deref(heap, r)
        go == [th EXCEPT !.step = WriteStep,
                         !.status = IF program = "server" THEN r ELSE NoneRef,
                         !.current_details =
                             IF program = "server_redis" /\ th.kind = "gen"
                                  /\ th.phase \in {"stage", "final"}
                             THEN s.details ELSE <<>>]
    IN  /\ th.step = "check"
        /\ threads' = [threads EXCEPT ![t] =
                IF MayWrite(s) THEN go
                ELSE IF th.phase = "stage" THEN AfterBreak(th)
                ELSE IF th.phase = "tick" THEN AfterTicks(th)
                ELSE Finished(th)]
        /\ heap' = Collect(heap, job_statuses, threads', cancelReq)
        /\ UNCHANGED <<stream, program, USE_REDIS, redisUp, flips, job_statuses,
                       redis, now, cancelReq, resp, hist, sweeper, expires,
                   wf>>

\* server.py:494, server_redis.py:579  full_doc_html + '<p>...</p>' raises
\* TypeError when full_doc_html is truthy and not a str; nothing in the thread
\* catches it, so the thread ends there
Raises(th) ==
    /\ th.kind = "ref"
    /\ th.phase = "final"
    /\ Truthy(th.full_doc_html)
    /\ ~IsStr(th.full_doc_html)

\* server.py:405-416, 431-443, 450-461, 482-488, 494-502
\* the dict read at the check is updated in place and put back under the id
RunnerWrite(t) ==
    LET th  == threads[t]
        s   == heap[th.status.obj]
        new == StatusUpdate(th, s, s.details)
        st  == IF Raises(th)
               THEN [h |-> heap, js |-> job_statuses]
               ELSE set_job_status(UpdateHeap(heap, th.status, new), th.job_id,
                                   th.status)
    IN  /\ program = "server"
        /\ th.step = "write"
        /\ threads' = [threads EXCEPT ![t] =
                IF Raises(th) THEN Finished(th) ELSE AfterWrite(th)]
        /\ job_statuses' = st.js
        /\ heap' = Collect(st.h, job_statuses', threads', cancelReq)
        /\ UNCHANGED <<stream, program, USE_REDIS, redisUp, flips, redis, now,
                       cancelReq, resp, hist, sweeper, expires,
                   wf>>

\* server_redis.py:89-93 update_job_status, first half: read the status again
\* and apply the updates to the dict that was read
RunnerUpdGet(t) ==
    LET th  == threads[t]
        r   == get_job_status(th.job_id)
        s   == Deref(heap, r)
        new == StatusUpdate(th, s, th.current_details)
    IN  /\ program = "server_redis"
        /\ th.step = "get"
        /\ threads' = [threads EXCEPT ![t] =
                IF Raises(th) THEN Finished(th)
                ELSE IF s = None THEN AfterWrite(th)
                ELSE [th EXCEPT !.step = "set", !.status = UpdateRef(r, new)]]
        /\ heap' = Collect(IF s = None \/ Raises(th) THEN heap
                           ELSE UpdateHeap(heap, r, new),
                           job_statuses, threads', cancelReq)
        /\ UNCHANGED <<stream, program, USE_REDIS, redisUp, flips, job_statuses,
                       redis, now, cancelReq, resp, hist, sweeper, expires,
                   wf>>

\* server_redis.py:94 update_job_status, second half: set_job_status
RunnerUpdSet(t) ==
    LET th == threads[t]
        st == set_job_status(heap, th.job_id, th.status)
    IN  /\ program = "server_redis"
        /\ th.step = "set"
        /\ threads' = [threads EXCEPT ![t] = AfterWrite(th)]
        /\ job_statuses' = st.js
        /\ redis' = st.rd
        /\ expires' = st.ex
        /\ heap' = Collect(st.h, job_statuses', threads', cancelReq)
        /\ hist' = [hist EXCEPT ![th.job_id].runnerSet =
                        [by |-> t, status |-> Deref(heap, th.status)]]
        /\ UNCHANGED <<stream, program, USE_REDIS, redisUp, flips, now, cancelReq,
                       resp, sweeper,
                   wf>>

-----------------------------------------------------------------------------
(* Creation requests *)

NThreads == Cardinality({t \in Threads : threads[t].kind # "none"})

\* job_<ms>_<9 random characters> (server.py:110, 159): an id not used before
Unused == {j \in 1..MaxFresh : hist[j].creates = 0}
FreshIds == {j \in Unused : \A u \in Unused : j <= u}
\* the ids handed out so far: what a client can name in a later request
KnownIds == {j \in JobIds : hist[j].creates > 0}

Created(h, job_id) == [h EXCEPT ![job_id].creates = @ + 1,
                                 ![job_id].runnerSet = NoSet]

\* server.py:105-107, server_redis.py:198-200  the request is refused
reject_generation ==
    /\ resp' = [op |-> "generate", job_id |-> 0, code |-> 400,
                message |-> "Prompt is required"]
    /\ UNCHANGED <<stream, program, USE_REDIS, redisUp, flips, heap, job_statuses,
                   redis, now, threads, cancelReq, hist, sweeper, expires,
                   wf>>

\* server.py:109-144, server_redis.py:202-238  the initial record is stored,
\* the Stage Runner thread is started and the request answers
start_generation(prompt, job_id) ==
    LET st == set_job_status(heap, job_id,
                  [obj |-> 0, val |-> InitialGeneration(job_id, now)])
    IN  /\ NThreads < MaxCreates
        /\ job_id \in JobIds
        /\ threads' = [threads EXCEPT ![NThreads + 1] = GenThread(job_id, prompt)]
        /\ job_statuses' = st.js
        /\ redis' = st.rd
        /\ expires' = st.ex
        /\ heap' = Collect(st.h, job_statuses', threads', cancelReq)
        /\ resp' = [op |-> "generate", job_id |-> job_id, code |-> 200,
                    message |-> "Generation started"]
        /\ hist' = Created(hist, job_id)
        /\ UNCHANGED <<stream, program, USE_REDIS, redisUp, flips, now, cancelReq,
                       sweeper,
                   wf>>

\* a handler that refuses only a request without a prompt key ("" is let in)
generate_document_NoneOnly(prompt, job_id) ==
    IF prompt = NoneStr THEN reject_generation ELSE start_generation(prompt, job_id)

\* server.py:95-144, server_redis.py:188-238  POST /api/generate
generate_document(prompt, job_id) ==
    IF ~Truthy(prompt) THEN reject_generation ELSE start_generation(prompt, job_id)

\* server.py:161-188, server_redis.py:255-282  POST /api/refine: the record is
\* stored under job_id, the Stage Runner thread is started, the request answers
\* (existing_job_id = 0 below stands for a request without jobId)
start_refinement(job_id, full_doc_html) ==
    LET st == set_job_status(heap, job_id,
                  [obj |-> 0, val |-> InitialRefinement(job_id, now)])
    IN  /\ NThreads < MaxCreates
        /\ job_id \in JobIds
        /\ threads' = [threads EXCEPT ![NThreads + 1] = RefThread(job_id, full_doc_html)]
        /\ job_statuses' = st.js
        /\ redis' = st.rd
        /\ expires' = st.ex
        /\ heap' = Collect(st.h, job_statuses', threads', cancelReq)
        /\ resp' = [op |-> "refine", job_id |-> job_id, code |-> 200,
                    message |-> "Refinement started"]
        /\ hist' = Created(hist, job_id)
        /\ UNCHANGED <<stream, program, USE_REDIS, redisUp, flips, now, cancelReq,
                       sweeper,
                   wf>>

\* a handler that allocates a new id whatever jobId the request supplies
refine_document_FreshId(existing_job_id, fresh_id, full_doc_html) ==
    start_refinement(fresh_id, full_doc_html)

\* server.py:153-159, server_redis.py:247-253  jobId of the request, or a new id
refine_document(existing_job_id, fresh_id, full_doc_html) ==
    start_refinement(IF existing_job_id # 0 THEN existing_job_id ELSE fresh_id,
                     full_doc_html)

-----------------------------------------------------------------------------
(* The Cancellation Gate: POST /api/cancel/<job_id> *)

Cancelled(s) == [s EXCEPT !.stage = "failed", !.message = "Job cancelled by user",
                          !.estimatedTimeRemaining = 0]

CancelDone(job_id, code, message) ==
    /\ cancelReq' = [IdleCancel EXCEPT !.served = cancelReq.served + 1]
    /\ resp' = [op |-> "cancel", job_id |-> job_id, code |-> code, message |-> message]

\* a gate that answers success for an id without a record
cancel_missing_Ok(job_id) == CancelDone(job_id, 200, "Job cancelled successfully")

\* server.py:325-326, server_redis.py:419-420
cancel_missing(job_id) == CancelDone(job_id, 404, "Job not found")

\* a gate that refuses to cancel a job that is already terminal
cancel_terminal_Refused(job_id) == CancelDone(job_id, 409, "Job already completed")

\* server.py:328-329, server_redis.py:422-423
cancel_terminal(job_id) == CancelDone(job_id, 200, "Job already completed")

\* server.py:323-329, server_redis.py:417-423
cancel_job(job_id) ==
    LET r == get_job_status(job_id)
        s == Deref(heap, r)
    IN  /\ cancelReq.pc = "idle"
        /\ hist' = [hist EXCEPT ![job_id].cancelAsked = TRUE]
        /\ IF s = None
           THEN cancel_missing(job_id)
           ELSE IF s.stage \in TerminalStages
           THEN cancel_terminal(job_id)
           ELSE /\ cancelReq' = [cancelReq EXCEPT
                        !.pc = IF program = "server" THEN "set_stage" ELSE "get",
                        !.job_id = job_id,
                        !.status = IF program = "server" THEN r ELSE NoneRef]
                /\ resp' = resp
        /\ heap' = Collect(heap, job_statuses, threads, cancelReq')
        /\ UNCHANGED <<stream, program, USE_REDIS, redisUp, flips, job_statuses,
                       redis, now, threads, sweeper, expires,
                   wf>>

\* server.py:332  status['stage'] = 'failed'
CancelSetStage ==
    LET o == cancelReq.status.obj
    IN  /\ cancelReq.pc = "set_stage"
        /\ heap' = [heap EXCEPT ![o].stage = "failed"]
        /\ hist' = [hist EXCEPT ![cancelReq.job_id].cancelProgress = heap[o].progress]
        /\ cancelReq' = [cancelReq EXCEPT !.pc = "set_message"]
        /\ UNCHANGED <<stream, program, USE_REDIS, redisUp, flips, job_statuses,
                       redis, now, threads, resp, sweeper, expires,
                   wf>>

\* server.py:333  status['message'] = 'Job cancelled by user'
CancelSetMessage ==
    LET o == cancelReq.status.obj
    IN  /\ cancelReq.pc = "set_message"
        /\ heap' = [heap EXCEPT ![o].message = "Job cancelled by user"]
        /\ cancelReq' = [cancelReq EXCEPT !.pc = "set_eta"]
        /\ UNCHANGED <<stream, program, USE_REDIS, redisUp, flips, job_statuses,
                       redis, now, threads, resp, hist, sweeper, expires,
                   wf>>

\* server.py:334-337  status['estimatedTimeRemaining'] = 0, the dict is put
\* back under the id and the request answers
CancelSetEta ==
    LET o  == cancelReq.status.obj
        st == set_job_status([heap EXCEPT ![o].estimatedTimeRemaining = 0],
                             cancelReq.job_id, cancelReq.status)
    IN  /\ cancelReq.pc = "set_eta"
        /\ CancelDone(cancelReq.job_id, 200, "Job cancelled successfully")
        /\ job_statuses' = st.js
        /\ heap' = Collect(st.h, job_statuses', threads, cancelReq')
        /\ hist' = [hist EXCEPT ![cancelReq.job_id].cancelled = TRUE]
        /\ UNCHANGED <<stream, program, USE_REDIS, redisUp, flips, redis, now,
                       threads, sweeper, expires,
                   wf>>

\* server_redis.py:426 -> 91-93  update_job_status reads the status again and
\* applies the three fields; a status that is gone is skipped silently and
\* the request still answers "cancelled successfully" (line 432)
CancelUpdGet ==
    LET r == get_job_status(cancelReq.job_id)
        s == Deref(heap, r)
    IN  /\ cancelReq.pc = "get"
        /\ IF s = None
           THEN /\ CancelDone(cancelReq.job_id, 200, "Job cancelled successfully")
                /\ hist' = [hist EXCEPT ![cancelReq.job_id].cancelled = TRUE]
                /\ heap' = Collect(heap, job_statuses, threads, cancelReq')
           ELSE /\ cancelReq' = [cancelReq EXCEPT !.pc = "set",
                                     !.status = UpdateRef(r, Cancelled(s))]
                /\ resp' = resp
                /\ hist' = [hist EXCEPT
                        ![cancelReq.job_id].cancelProgress = s.progress,
                        ![cancelReq.job_id].runnerSet =
                            IF r.obj # 0 THEN NoSet ELSE @]
                /\ heap' = Collect(UpdateHeap(heap, r, Cancelled(s)),
                                   job_statuses, threads, cancelReq')
        /\ UNCHANGED <<stream, program, USE_REDIS, redisUp, flips, job_statuses,
                       redis, now, threads, sweeper, expires,
                   wf>>

\* server_redis.py:94 set_job_status, then line 432
CancelUpdSet ==
    LET st == set_job_status(heap, cancelReq.job_id, cancelReq.status)
    IN  /\ cancelReq.pc = "set"
        /\ CancelDone(cancelReq.job_id, 200, "Job cancelled successfully")
        /\ job_statuses' = st.js
        /\ redis' = st.rd
        /\ expires' = st.ex
        /\ heap' = Collect(st.h, job_statuses', threads, cancelReq')
        /\ hist' = [hist EXCEPT ![cancelReq.job_id].cancelled = TRUE,
                                ![cancelReq.job_id].runnerSet = NoSet]
        /\ UNCHANGED <<stream, program, USE_REDIS, redisUp, flips, now, threads,
                       sweeper,
                   wf>>

-----------------------------------------------------------------------------
(* The environment *)

\* the Redis server becomes unreachable, or reachable again
RedisFlip ==
    /\ USE_REDIS
    /\ flips < MaxFlips
    /\ redisUp' = ~redisUp
    /\ flips' = flips + 1
    /\ UNCHANGED <<stream, program, USE_REDIS, heap, job_statuses, redis, now,
                   threads, cancelReq, resp, hist, sweeper, expires,
                   wf>>

\* the clock step of the model: one hour, in milliseconds
ClockStep == 60 * 60 * 1000

\* requests and Stage Runners take seconds (a generation plan sleeps 30 s in
\* all, a refinement plan 12 s) and the sweeper wakes every 300 s: within one
\* clock step every started thread ends and the sweeper makes its sweep
Quiet ==
    /\ \A t \in Threads : threads[t].phase \in {"none", "done"}
    /\ cancelReq.pc = "idle"
    /\ sweeper.pc \in {"off", "dead", "sleeping"}
    /\ ~sweeper.due

\* an hour passes; Redis drops the keys whose time to live has run out
Tick ==
    /\ Quiet
    /\ now < MaxClock * ClockStep
    /\ now' = now + ClockStep
    /\ redis' = [j \in JobIds |->
                    IF expires[j] # 0 /\ expires[j] <= now' THEN None ELSE redis[j]]
    /\ expires' = [j \in JobIds |->
                    IF expires[j] # 0 /\ expires[j] <= now' THEN 0 ELSE expires[j]]
    /\ sweeper' = [sweeper EXCEPT !.due = (sweeper.pc = "sleeping")]
    /\ UNCHANGED <<program, USE_REDIS, redisUp, flips, heap, job_statuses, threads,
                   cancelReq, resp, stream, hist,
                   wf>>

-----------------------------------------------------------------------------
(* The Retention Sweeper: cleanup_old_jobs *)

\* server.py:533, server_redis.py:621
TWO_HOURS == 2 * 60 * 60 * 1000

Keys == {j \in JobIds : job_statuses[j] # 0}

\* the startTime of a status dict that has no 'startTime' key
NoStartTime == -1

\* server.py:537, server_redis.py:625  status.get('startTime', now)
start_time(status, default) ==
    IF status.startTime = NoStartTime THEN default ELSE status.startTime

\* the ids in JobIds of set S in ascending order
RECURSIVE Ascending(_)
Ascending(S) ==
    IF S = {} THEN <<>>
    ELSE LET m == CHOOSE x \in S : \A y \in S : x <= y
         IN  <<m>> \o Ascending(S \ {m})

\* server.py:531-536  time.sleep(300) is over and the iteration over
\* job_statuses.items() starts: the iterator notes the size of the dict
sweep_begin ==
    /\ sweeper.pc = "sleeping"
    /\ sweeper.due
    /\ sweeper' = [sweeper EXCEPT !.pc = "scanning", !.due = FALSE,
                                  !.used = Cardinality(Keys)]
    /\ UNCHANGED <<program, USE_REDIS, redisUp, flips, heap, job_statuses, redis,
                   expires, now, threads, cancelReq, resp, stream, hist,
                   wf>>

\* server.py:535-538  the list comprehension ends.  A dict whose size changed
\* during the iteration raises RuntimeError, which nothing catches: the
\* thread ends.  Otherwise the ids older than TWO_HOURS are listed.
sweep_scan ==
    /\ sweeper.pc = "scanning"
    /\ sweeper' =
         IF Cardinality(Keys) # sweeper.used
         THEN [sweeper EXCEPT !.pc = "dead", !.used = 0]
         ELSE LET old == {j \in Keys :
                             now - start_time(heap[job_statuses[j]], now)
                                 > TWO_HOURS}
              IN  [sweeper EXCEPT !.pc = IF old = {} THEN "sleeping" ELSE "deleting",
                                  !.used = 0,
                                  !.job_ids_to_delete = Ascending(old)]
    /\ UNCHANGED <<program, USE_REDIS, redisUp, flips, heap, job_statuses, redis,
                   expires, now, threads, cancelReq, resp, stream, hist,
                   wf>>

\* server.py:540-541  del job_statuses[job_id] for the next listed id
sweep_delete ==
    LET job_id == Head(sweeper.job_ids_to_delete)
        rest   == Tail(sweeper.job_ids_to_delete)
    IN  /\ sweeper.pc = "deleting"
        /\ job_statuses' = [job_statuses EXCEPT ![job_id] = 0]
        /\ heap' = Collect(heap, job_statuses', threads, cancelReq)
        /\ sweeper' = [sweeper EXCEPT !.pc = IF rest = <<>> THEN "sleeping" ELSE "deleting",
                                      !.job_ids_to_delete = rest]
        /\ UNCHANGED <<program, USE_REDIS, redisUp, flips, redis, expires, now,
                       threads, cancelReq, resp, stream, hist,
                   wf>>

-----------------------------------------------------------------------------
(* Status lookups: GET /api/status/<job_id> *)

\* server.py:39-50, server_redis.py:129-143
\* server_redis.py:141 writes status['_server'] into the dict it was handed
get_status(job_id) ==
    LET r == get_job_status(job_id)
        s == Deref(heap, r)
    IN  IF s = None
        THEN /\ resp' = [op |-> "status", job_id |-> job_id, code |-> 404,
                         message |-> "Job not found"]
             /\ UNCHANGED <<stream, program, USE_REDIS, redisUp, flips, heap,
                            job_statuses, redis, now, threads, cancelReq, hist,
                            sweeper, expires,
                   wf>>
        ELSE /\ resp' = [op |-> "status", job_id |-> job_id, code |-> 200,
                         message |-> s.stage]
             /\ heap' = IF program = "server_redis"
                        THEN UpdateHeap(heap, r, [s EXCEPT !._server = "port-3001"])
                        ELSE heap
             /\ UNCHANGED <<stream, program, USE_REDIS, redisUp, flips,
                            job_statuses, redis, now, threads, cancelReq, hist,
                            sweeper, expires,
                   wf>>

-----------------------------------------------------------------------------
(* The Status Broadcaster: GET /api/status/<job_id>/stream *)

Count(n, max) == IF n < max THEN n + 1 ELSE max

\* a generator that yields the "Job not found" event and goes on to poll
stream_not_found_NoReturn(job_id) ==
    [pc |-> "polling", job_id |-> job_id, absent |-> TRUE,
     notFound |-> 1, snapshots |-> 0, terminals |-> 0]

\* server.py:62-64, server_redis.py:155-157  the "Job not found" event is
\* yielded and the generator returns
stream_not_found(job_id) ==
    [pc |-> "closed", job_id |-> job_id, absent |-> TRUE,
     notFound |-> 1, snapshots |-> 0, terminals |-> 0]

\* server.py:59-67, server_redis.py:152-160  the generator up to its first
\* yield: the "Job not found" event and return, or the initial snapshot
stream_open(job_id) ==
    LET s == Rec(job_id)
    IN  /\ stream.pc = "idle"
        /\ stream' =
             IF s = None
             THEN stream_not_found(job_id)
             ELSE [pc |-> "polling", job_id |-> job_id, absent |-> FALSE,
                   notFound |-> 0, snapshots |-> 1,
                   terminals |-> IF IsTerminal(s) THEN 1 ELSE 0]
        /\ UNCHANGED <<program, USE_REDIS, redisUp, flips, heap, job_statuses,
                       redis, now, threads, cancelReq, resp, hist, sweeper,
                       expires,
                   wf>>

\* a polling loop without the break at line 81-82: it goes on polling after
\* it has sent a terminal snapshot
stream_poll_NoBreak ==
    LET s == Rec(stream.job_id)
    IN  /\ stream.pc = "polling"
        /\ stream' =
             IF s = None
             THEN [stream EXCEPT !.pc = "closed"]
             ELSE [stream EXCEPT
                     !.snapshots = Count(@, MaxSnapshots),
                     !.terminals = IF IsTerminal(s) THEN Count(@, MaxSnapshots) ELSE @]
        /\ UNCHANGED <<program, USE_REDIS, redisUp, flips, heap, job_statuses,
                       redis, now, threads, cancelReq, resp, hist, sweeper,
                       expires,
                   wf>>

\* server.py:70-82, server_redis.py:163-175  one round of the polling loop
stream_poll ==
    LET s == Rec(stream.job_id)
    IN  /\ stream.pc = "polling"
        /\ stream' =
             IF s = None
             THEN [stream EXCEPT !.pc = "closed"]
             ELSE [stream EXCEPT
                     !.snapshots = Count(@, MaxSnapshots),
                     !.terminals = IF IsTerminal(s) THEN Count(@, MaxSnapshots) ELSE @,
                     !.pc = IF IsTerminal(s) THEN "closed" ELSE "polling"]
        /\ UNCHANGED <<program, USE_REDIS, redisUp, flips, heap, job_statuses,
                       redis, now, threads, cancelReq, resp, hist, sweeper,
                       expires,
                   wf>>

-----------------------------------------------------------------------------
(* The specifications *)

TruthyPrompts == {p \in Prompts : Truthy(p)}

Generate == \E p \in TruthyPrompts : \E j \in FreshIds : generate_document(p, j)
Refine == \E e \in KnownIds \cup {0} : \E j \in FreshIds \cup {0} : \E d \in FullDocs :
              refine_document(e, j, d)
Cancel == \E j \in JobIds : cancelReq.served < MaxCancels /\ cancel_job(j)
Check == \E t \in Threads : RunnerCheck(t)
Write == \E t \in Threads : RunnerWrite(t)
UpdGet == \E t \in Threads : RunnerUpdGet(t)
UpdSet == \E t \in Threads : RunnerUpdSet(t)

\* src/server.py: creation, cancellation and the Stage Runner threads
Next ==
    \/ Generate
    \/ Refine
    \/ Cancel
    \/ CancelSetStage
    \/ CancelSetMessage
    \/ CancelSetEta
    \/ Check
    \/ Write

Spec == Init /\ [][Next]_vars

\* src/server_redis.py, with Redis found or not found at startup and the
\* connection failing or recovering while the process runs
InitRedis ==
    /\ program = "server_redis"
    /\ USE_REDIS \in BOOLEAN
    /\ InitStore
    /\ InitSweeper
    /\ InitRequests

GenerateOnce == NThreads < MaxCreatesSingle /\ Generate
RefineOnce == NThreads < MaxCreatesSingle /\ Refine

NextRedis ==
    \/ GenerateOnce
    \/ RefineOnce
    \/ Cancel
    \/ CancelUpdGet
    \/ CancelUpdSet
    \/ Check
    \/ UpdGet
    \/ UpdSet
    \/ RedisFlip

SpecRedis == InitRedis /\ [][NextRedis]_vars

\* either build, serving one creation request with any prompt and any job
\* id a client may send, status lookups and cancel requests
InitAny ==
    /\ program \in {"server", "server_redis"}
    /\ USE_REDIS \in (IF program = "server" THEN {FALSE} ELSE BOOLEAN)
    /\ InitStore
    /\ InitSweeper
    /\ InitRequests

GenerateAny ==
    \E p \in Prompts : \E j \in FreshIds \cup {0} :
        /\ Truthy(p) => NThreads < MaxCreatesSingle
        /\ generate_document(p, j)
RefineAny ==
    \E e \in JobIds \cup {0} : \E j \in FreshIds \cup {0} : \E d \in FullDocs :
        /\ NThreads < MaxCreatesSingle
        /\ refine_document(e, j, d)
Lookup == \E j \in JobIds : get_status(j)

NextApi ==
    \/ GenerateAny
    \/ RefineAny
    \/ Lookup
    \/ Cancel
    \/ CancelSetStage
    \/ CancelSetMessage
    \/ CancelSetEta
    \/ CancelUpdGet
    \/ CancelUpdSet
    \/ Check
    \/ Write
    \/ UpdGet
    \/ UpdSet
    \/ RedisFlip

SpecApi == InitAny /\ [][NextApi]_vars

\* either build, serving one creation request and one status stream
StreamOpen == \E j \in JobIds : stream_open(j)

NextStream ==
    \/ GenerateOnce
    \/ RefineAny
    \/ StreamOpen
    \/ stream_poll
    \/ Cancel
    \/ CancelSetStage
    \/ CancelSetMessage
    \/ CancelSetEta
    \/ CancelUpdGet
    \/ CancelUpdSet
    \/ Check
    \/ Write
    \/ UpdGet
    \/ UpdSet
    \/ RedisFlip

SpecStream == InitAny /\ [][NextStream]_vars

\* either build, serving one creation request and repeated cancel requests
CancelRepeat == \E j \in JobIds : cancelReq.served < MaxRepeatCancels /\ cancel_job(j)

NextCancel ==
    \/ GenerateOnce
    \/ RefineOnce
    \/ CancelRepeat
    \/ CancelSetStage
    \/ CancelSetMessage
    \/ CancelSetEta
    \/ CancelUpdGet
    \/ CancelUpdSet
    \/ Check
    \/ Write
    \/ UpdGet
    \/ UpdSet
    \/ RedisFlip

SpecCancel == InitAny /\ [][NextCancel]_vars

\* src/server.py, the identifier drawn by a creation request (a millisecond
\* timestamp and nine random characters) being any identifier, one that
\* already keys a record included
GenerateDrawn == \E p \in TruthyPrompts : \E j \in JobIds : generate_document(p, j)
RefineDrawn == \E j \in JobIds : \E d \in FullDocs : refine_document(0, j, d)

NextDrawn ==
    \/ GenerateDrawn
    \/ RefineDrawn
    \/ Check
    \/ Write

SpecDrawn == Init /\ [][NextDrawn]_vars

\* either build over hours: a generation request, a refinement request for
\* the document of a job whose Stage Runner has ended, the clock and the
\* Retention Sweeper
RefineKnown ==
    \E e \in KnownIds : \E d \in FullDocs :
        /\ \A t \in Threads : threads[t].phase \in {"none", "done"}
        /\ refine_document(e, 0, d)

NextSweep ==
    \/ GenerateOnce
    \/ RefineKnown
    \/ Check
    \/ Write
    \/ UpdGet
    \/ UpdSet
    \/ RedisFlip
    \/ Tick
    \/ sweep_begin
    \/ sweep_scan
    \/ sweep_delete

SpecSweep == InitAny /\ [][NextSweep]_vars

-----------------------------------------------------------------------------
(* Properties *)

IsPrefix(a, b) == Len(a) <= Len(b) /\ SubSeq(b, 1, Len(a)) = a

\* a step of a Stage Runner thread, or the first step of a cancel request, as
\* opposed to a creation request, a change of the Redis connection, or the
\* later steps of a cancel request that is still writing its three fields
RunnerOrCancelStep ==
    /\ threads' # threads \/ (cancelReq' # cancelReq /\ cancelReq.pc = "idle")
    /\ \A j \in JobIds : hist'[j].creates = hist[j].creates
    /\ redisUp' = redisUp

\* C1  Terminal immutability: once the record of a job id has stage
\* 'completed' or 'failed', no step of a Stage Runner and no cancel request
\* changes its stage, progress or estimatedTimeRemaining.
TerminalImmutable ==
    [][\A j \in JobIds :
          (IsTerminal(Rec(j)) /\ RunnerOrCancelStep) =>
              /\ Rec(j)' # None
              /\ Rec(j)'.stage = Rec(j).stage
              /\ Rec(j)'.progress = Rec(j).progress
              /\ Rec(j)'.estimatedTimeRemaining = Rec(j).estimatedTimeRemaining]_vars

\* C2  Cancellation wins the race with the Stage Runner: after a cancel
\* request on a non-terminal job has answered "cancelled successfully", the
\* record of that job (its id not being reused by a later request) has stage
\* 'failed', estimatedTimeRemaining 0 and the progress it had when the cancel
\* wrote, in every later state.
CancelWins ==
    \A j \in JobIds :
        (hist[j].cancelled /\ hist[j].creates = 1) =>
            /\ Rec(j) # None
            /\ Rec(j).stage = "failed"
            /\ Rec(j).estimatedTimeRemaining = 0
            /\ Rec(j).progress = hist[j].cancelProgress

\* C3  progress never decreases over the writes made to the record of a job
\* id, a refinement request that reuses the id included.
ProgressMonotone ==
    [][\A j \in JobIds :
          (Rec(j) # None /\ Rec(j)' # None /\ redisUp' = redisUp) =>
              Rec(j)'.progress >= Rec(j).progress]_vars

\* C4  details is append-only: over any step the details of a job id's
\* record before the step is a prefix of its details after the step.
DetailsAppendOnly ==
    [][\A j \in JobIds :
          (Rec(j) # None /\ Rec(j)' # None /\ redisUp' = redisUp) =>
              IsPrefix(Rec(j).details, Rec(j)'.details)]_vars

\* C5  once a creation request has answered with a job id, a status lookup
\* of that id finds a record (never NotFound), also while operations on the
\* remote store fail.
CreatedIsFound ==
    \A j \in JobIds : hist[j].creates > 0 => Rec(j) # None

\* C7  when Redis was reachable at startup and fails while a job runs, a
\* lookup of the job still finds its record, and once the job's Stage Runner
\* has ended the record is terminal.
RunnerOf(j) == {t \in Threads : threads[t].kind # "none" /\ threads[t].job_id = j}
SurvivesStoreFailure ==
    \A j \in JobIds :
        (USE_REDIS /\ ~redisUp /\ hist[j].creates > 0) =>
            /\ Rec(j) # None
            /\ (\A t \in RunnerOf(j) : threads[t].phase = "done") => IsTerminal(Rec(j))


\* C6  a generation job that is never cancelled and whose id is never reused
\* ends with a record of stage 'completed', progress 100, completedSteps =
\* totalSteps and a non-empty docHtml: whenever its Stage Runner has ended,
\* that is the record a lookup of the job returns.
Disturbed(j) == hist[j].cancelAsked \/ hist[j].creates > 1
CompletedBy(t) ==
    LET s == Rec(threads[t].job_id)
    IN  /\ s # None
        /\ s.stage = "completed"
        /\ s.progress = 100
        /\ s.completedSteps = s.totalSteps
        /\ Truthy(s.docHtml)
GenerationCompletes ==
    \A t \in Threads :
        (threads[t].kind = "gen" /\ threads[t].phase = "done"
            /\ ~Disturbed(threads[t].job_id)) => CompletedBy(t)

\* C8  a create-generation request whose prompt is empty or absent answers
\* 400 and changes neither the store nor the set of Stage Runner threads.
EmptyPromptRejected ==
    [][\A p \in Prompts \ TruthyPrompts : \A j \in JobIds \cup {0} :
          generate_document(p, j) =>
              /\ resp'.op = "generate"
              /\ resp'.code = 400
              /\ UNCHANGED <<heap, job_statuses, redis, threads>>]_vars
PromptWasRejected ==
    /\ resp.op = "generate"
    /\ resp.code = 400
    /\ \E j \in JobIds : ~NoRecord(j)

\* C9  a status lookup or a cancel request for a job id that has no record
\* answers 404 and leaves the store unchanged: no record appears for the id.
UnknownJobNotFound ==
    [][\A j \in JobIds :
          ((get_status(j) \/ cancel_job(j)) /\ NoRecord(j)) =>
              /\ resp'.job_id = j
              /\ resp'.code = 404
              /\ UNCHANGED <<heap, job_statuses, redis>>]_vars
UnknownJobAsked ==
    /\ resp.op \in {"status", "cancel"}
    /\ resp.code = 404
    /\ NoRecord(resp.job_id)
    /\ \E j \in JobIds : ~NoRecord(j)

\* C10  a stream opened for a job id without a record emits exactly one
\* 'not found' event and is closed: it emits no snapshot and does not poll,
\* also after a record for the id has been created.
AbsentStreamClosed ==
    stream.absent =>
        /\ stream.pc = "closed"
        /\ stream.notFound = 1
        /\ stream.snapshots = 0
AbsentStreamThenCreated ==
    /\ stream.absent
    /\ Rec(stream.job_id) # None
    /\ \E t \in Threads : threads[t].phase = "done"

\* C11  a status stream emits a snapshot whose stage is 'completed' or
\* 'failed' at most once, the snapshot emitted at subscribe time included.
TerminalSnapshotOnce == stream.terminals <= 1

\* C13  bounded response to cancellation: once a cancel request on a job (its
\* id not reused) has answered "cancelled successfully", no later check of
\* the job's Stage Runner passes: the runner makes at most the one write whose
\* check had passed before, and no write after a later check.
HaltsAfterCancel ==
    [][\A t \in Threads :
          (threads[t].step = "check"
              /\ threads[t].job_id \in JobIds
              /\ hist[threads[t].job_id].cancelled
              /\ hist[threads[t].job_id].creates = 1) =>
                  threads'[t].step \in {"check", "done"}]_vars

\* C18  0 <= completedSteps <= totalSteps in every record of every store.
StoredRecords ==
    {heap[job_statuses[j]] : j \in {k \in JobIds : job_statuses[k] # 0}}
        \cup {redis[j] : j \in {k \in JobIds : redis[k] # None}}
StepsWithinTotal ==
    \A s \in StoredRecords : 0 <= s.completedSteps /\ s.completedSteps <= s.totalSteps

\* C19  a record whose stage is not 'completed' carries no result: neither
\* docHtml nor pdfUrl is present in it.
ResultOnlyWhenCompleted ==
    \A s \in StoredRecords :
        s.stage # "completed" => (s.docHtml = NoneStr /\ s.pdfUrl = NoneStr)

\* C12  cancellation is idempotent: a cancel request on a job whose record is
\* 'completed' or 'failed' answers success and changes no field of any
\* record; in particular a second cancel of a cancelled job changes nothing.
CancelIdempotent ==
    [][\A j \in JobIds :
          (cancel_job(j) /\ IsTerminal(Rec(j))) =>
              /\ resp' = [op |-> "cancel", job_id |-> j, code |-> 200,
                          message |-> "Job already completed"]
              /\ cancelReq'.pc = "idle"
              /\ UNCHANGED <<heap, job_statuses, redis>>]_vars
CancelledTwice ==
    /\ resp.op = "cancel"
    /\ resp.message = "Job already completed"
    /\ hist[resp.job_id].cancelled
    /\ Rec(resp.job_id) # None
    /\ Rec(resp.job_id).stage = "failed"
    /\ Rec(resp.job_id).message = "Job cancelled by user"

\* C15  jobId is immutable and equal to its key: every record stored under
\* key k has jobId = k in every state, whatever runner and cancel writes were
\* made, and a refinement request that supplies jobId j stores its record
\* under j and answers j.
StoredUnder(k) ==
    (IF job_statuses[k] # 0 THEN {heap[job_statuses[k]]} ELSE {})
        \cup (IF redis[k] # None THEN {redis[k]} ELSE {})
JobIdIsKey ==
    /\ [](\A k \in JobIds : \A s \in StoredUnder(k) : s.jobId = k)
    /\ [][\A e \in JobIds : \A f \in JobIds \cup {0} : \A d \in FullDocs :
              refine_document(e, f, d) =>
                  /\ resp'.op = "refine"
                  /\ resp'.job_id = e
                  /\ (StoredUnder(e) # {})']_vars
RefinedUnderSuppliedId ==
    /\ resp.op = "refine"
    /\ resp.job_id \in JobIds \ (1..MaxFresh)
    /\ StoredUnder(resp.job_id) # {}
    /\ \E t \in Threads : threads[t].job_id = resp.job_id /\ threads[t].phase = "done"

\* C14  creation never silently overwrites: a generation request, or a
\* refinement request without jobId, whose allocated identifier already keys
\* a record leaves that record in the store as it is.
NoSilentOverwrite ==
    [][\A j \in JobIds :
          (/\ StoredUnder(j) # {}
           /\ \/ \E p \in TruthyPrompts : generate_document(p, j)
              \/ \E d \in FullDocs : refine_document(0, j, d)) =>
              (StoredUnder(j))' = StoredUnder(j)]_vars

\* C16  each sweep of the Retention Sweeper deletes exactly the records whose
\* startTime is more than the 2-hour retention window before the sweep: a
\* record it deletes is that old when it is deleted, the deletion leaves the
\* other keys alone, and when the sweep ends no record that old is left.
Age(s) == now - s.startTime
SweepExact ==
    [][/\ (sweeper.pc = "deleting" /\ sweeper' # sweeper) =>
             LET j == Head(sweeper.job_ids_to_delete)
             IN  /\ job_statuses[j] # 0
                 /\ Age(heap[job_statuses[j]]) > TWO_HOURS
                 /\ \A k \in JobIds \ {j} : job_statuses'[k] = job_statuses[k]
       /\ (sweeper.pc \in {"scanning", "deleting"} /\ sweeper'.pc = "sleeping") =>
             \A k \in JobIds :
                 job_statuses'[k] # 0 => Age(heap'[job_statuses'[k]]) <= TWO_HOURS]_vars

\* C17  every stored record is removed in the end, by the Retention Sweeper
\* or by the Redis time to live: once the clock has passed a record's
\* retention window and the sweep of that hour, if any is made, is over, no
\* store holds the record, the fallback map of a process that found Redis at
\* startup included.
RecordsRemoved ==
    (sweeper.pc \in {"off", "sleeping"} /\ ~sweeper.due) =>
        \A k \in JobIds : \A s \in StoredUnder(k) : Age(s) <= TWO_HOURS

\* C20  startTime is set when the record of a job id is first created and no
\* later step changes it while the id has a record: no runner write and no
\* later creation or refinement request for the id.
StartTimeSetOnce ==
    [][\A k \in JobIds :
          /\ (job_statuses[k] # 0 /\ job_statuses'[k] # 0) =>
                 heap'[job_statuses'[k]].startTime = heap[job_statuses[k]].startTime
          /\ (redis[k] # None /\ redis'[k] # None) =>
                 redis'[k].startTime = redis[k].startTime]_vars

\* C21  the merge update_job_status is atomic per key: a merge writes back
\* only its own fields.  The write-back of a tick merge (progress,
\* estimatedTimeRemaining) leaves the stored stage, message and details as
\* they are, and the write-back of a cancel merge (stage, message,
\* estimatedTimeRemaining) leaves the stored progress and details as they are.
MergeIsAtomic ==
    [][\A j \in JobIds :
          /\ \A t \in Threads :
                (RunnerUpdSet(t) /\ threads[t].phase = "tick"
                    /\ threads[t].job_id = j /\ Rec(j) # None) =>
                    /\ Rec(j)' # None
                    /\ Rec(j)'.stage = Rec(j).stage
                    /\ Rec(j)'.message = Rec(j).message
                    /\ Rec(j)'.details = Rec(j).details
          /\ (CancelUpdSet /\ cancelReq.job_id = j /\ Rec(j) # None) =>
                    /\ Rec(j)' # None
                    /\ Rec(j)'.progress = Rec(j).progress
                    /\ Rec(j)'.details = Rec(j).details]_vars

-----------------------------------------------------------------------------
(* server_redis.py through an outage of Redis and its recovery: the store     *)
(* functions test USE_REDIS and try Redis on every call, so each call falls   *)
(* back, or not, on its own                                                    *)

MaxOutageFlips == 2

RedisOutage ==
    /\ USE_REDIS
    /\ flips < MaxOutageFlips
    /\ redisUp' = ~redisUp
    /\ flips' = flips + 1
    /\ UNCHANGED <<stream, program, USE_REDIS, heap, job_statuses, redis, now,
                   threads, cancelReq, resp, hist, sweeper, expires,
                   wf>>

NextOutage ==
    \/ GenerateOnce
    \/ RefineOnce
    \/ Check
    \/ UpdGet
    \/ UpdSet
    \/ Lookup
    \/ RedisOutage

SpecOutage == InitRedis /\ [][NextOutage]_vars

\* a put of this process has fallen back to the local map after a Redis error
Degraded == USE_REDIS /\ \E j \in JobIds : job_statuses[j] # 0

\* C22: the store mode is one-way (Remote -> Local): once a put has fallen
\* back to the local map because of a Redis error, no later put writes to
\* Redis and every later get answers from the local map
StoreModeOneWay ==
    [][Degraded =>
          /\ redis' = redis
          /\ \A j \in JobIds :
                get_status(j) => (resp'.code = 404 <=> job_statuses[j] = 0)]_vars

\* C23: read-your-own-write within the Stage Runner: when no other writer has
\* written under the id since the runner's set_job_status returned, the
\* runner's next get_job_status returns the status that was set, whatever
\* Redis did in between
ReadYourOwnWrite ==
    [][\A t \in Threads : \A j \in JobIds :
          (/\ RunnerCheck(t) \/ RunnerUpdGet(t)
           /\ threads[t].job_id = j
           /\ hist[j].runnerSet.by = t) =>
              Rec(j) = hist[j].runnerSet.status]_vars

-----------------------------------------------------------------------------
(* Both programs with refinement requests whose fullDocHtml may be a number *)

RefineAnyDoc ==
    \E j \in FreshIds : \E d \in AnyDocs :
        NThreads < MaxCreatesSingle /\ refine_document(0, j, d)

NextCrash ==
    \/ GenerateOnce
    \/ RefineAnyDoc
    \/ Cancel
    \/ CancelSetStage
    \/ CancelSetMessage
    \/ CancelSetEta
    \/ CancelUpdGet
    \/ CancelUpdSet
    \/ Check
    \/ Write
    \/ UpdGet
    \/ UpdSet

SpecCrash == InitAny /\ [][NextCrash]_vars

\* C24: an error raised inside a Stage Runner is turned into a terminal write
\* of stage 'failed': once every Stage Runner of a job has ended, the job's
\* record is terminal, never left in a plan stage with no runner alive
RunnerErrorBecomesFailed ==
    \A j \in JobIds :
        (/\ RunnerOf(j) # {}
         /\ \A t \in RunnerOf(j) : threads[t].phase = "done"
         /\ cancelReq.pc = "idle"
         /\ Rec(j) # None) => IsTerminal(Rec(j))

\* C25: every stored record whose stage is 'completed' has progress 100,
\* estimatedTimeRemaining 0 and completedSteps = totalSteps, whether the job
\* ran the generation plan or the refinement plan
CompletedIsFull ==
    \A s \in StoredRecords :
        s.stage = "completed" =>
            /\ s.progress = 100
            /\ s.estimatedTimeRemaining = 0
            /\ s.completedSteps = s.totalSteps

\* C26: for a generation job whose id is not reused, a record in a plan stage
\* has a progress between that stage's floor and one unit below the next
\* stage's floor (99 in the last stage), and progress is 100 only in a record
\* whose stage is 'completed'
ProgressWithinStage ==
    \A j \in JobIds :
        (hist[j].creates = 1 /\ \A t \in RunnerOf(j) : threads[t].kind = "gen") =>
            \A s \in StoredUnder(j) :
                /\ \A i \in 1..Len(GenStages) :
                      s.stage = GenStages[i].stage =>
                          /\ GenStages[i].progress <= s.progress
                          /\ s.progress <= next_stage_progress(i) - 1
                /\ s.progress = 100 => s.stage = "completed"

\* the position of a stage in the order of the plan
StageRank(stage) ==
    CASE stage = "initializing" -> 0
      [] stage = "analyzing" -> 1
      [] stage = "generating" -> 2
      [] stage = "formatting" -> 3
      [] stage = "finalizing" -> 4
      [] stage = "completed" -> 5
      [] OTHER -> 6

StageForward(a, b) ==
    \/ a = b
    \/ b = "failed" /\ a \notin TerminalStages
    \/ a # "failed" /\ b # "failed" /\ StageRank(a) < StageRank(b)

\* C27: over the writes to the record of a jobId the stage only moves forward
\* in the order initializing < analyzing < generating < formatting <
\* finalizing < completed, 'failed' being entered from a non-terminal stage
\* only: no write moves the stage to an earlier position
StageOnlyForward ==
    [][\A j \in JobIds :
          (Rec(j) # None /\ Rec(j)' # None) =>
              StageForward(Rec(j).stage, Rec(j)'.stage)]_vars

\* the Stage Runner threads of job j that have not ended
ActiveRunners(j) == {t \in RunnerOf(j) : threads[t].phase # "done"}

\* C28: at any time at most one Stage Runner is active for a jobId, also after
\* a create-refinement request that supplies the id of a job whose runner has
\* not ended
OneRunnerPerJob ==
    \A j \in JobIds : Cardinality(ActiveRunners(j)) <= 1

\* thread t performs the stage-entry write of its current stage
\* (server.py:405-416, 482-488; server_redis.py:496-504, 568-573): the step
\* at which the stored record changes, which for update_job_status is the
\* dict.update when the get returned the dict of the fallback map itself, and
\* the set_job_status when it returned a copy decoded from Redis
StageEntryWrite(t) ==
    /\ threads[t].phase = "stage"
    /\ \/ RunnerWrite(t)
       \/ RunnerUpdGet(t) /\ get_job_status(threads[t].job_id).obj # 0
       \/ RunnerUpdSet(t) /\ threads[t].status.obj = 0

\* C29: every stage-entry write of a Stage Runner, of the generation plan and
\* of the refinement plan, sets stage, progress (the stage floor) and message,
\* increases completedSteps by exactly one and keeps the existing details as
\* the head of the details list; the generation plan also sets currentStep
\* and appends the detail lines of the stage
StageEntrySetsAll ==
    [][\A t \in Threads : \A j \in JobIds :
          (StageEntryWrite(t) /\ threads[t].job_id = j /\ Rec(j) # None) =>
              /\ Rec(j)' # None
              /\ Rec(j)'.stage = (IF threads[t].kind = "gen" THEN GenStages
                                  ELSE RefStages)[threads[t].i].stage
              /\ Rec(j)'.progress = (IF threads[t].kind = "gen" THEN GenStages
                                     ELSE RefStages)[threads[t].i].progress
              /\ Rec(j)'.message = (IF threads[t].kind = "gen" THEN GenStages
                                    ELSE RefStages)[threads[t].i].message
              /\ Rec(j)'.completedSteps = Rec(j).completedSteps + 1
              /\ IsPrefix(Rec(j).details, Rec(j)'.details)
              /\ threads[t].kind = "gen" =>
                    /\ Rec(j)'.currentStep = GenStages[threads[t].i].step
                    /\ Rec(j)'.details =
                           Rec(j).details \o GenStages[threads[t].i].details]_vars

-----------------------------------------------------------------------------
(* The Retention Sweeper applied to a map that holds a status dict without a  *)
(* 'startTime' key.  No handler of these programs stores such a dict (every    *)
(* creation sets startTime); the map is drawn here to apply the test of        *)
(* cleanup_old_jobs, which provides for the missing key, to it.                *)

MalformedId == MaxJobs

MalformedStatus ==
    [InitialGeneration(MalformedId, 0) EXCEPT !.startTime = NoStartTime]

InitMalformed ==
    /\ program \in {"server", "server_redis"}
    /\ USE_REDIS = FALSE
    /\ redisUp = FALSE
    /\ flips = 0
    /\ now = 0
    /\ heap = [o \in Oids |-> IF o = 1 THEN MalformedStatus ELSE None]
    /\ job_statuses = [j \in JobIds |-> IF j = MalformedId THEN 1 ELSE 0]
    /\ redis = [j \in JobIds |-> None]
    /\ expires = [j \in JobIds |-> 0]
    /\ InitSweeper
    /\ InitRequests

NextMalformed ==
    \/ GenerateOnce
    \/ Check
    \/ Write
    \/ UpdGet
    \/ UpdSet
    \/ Tick
    \/ sweep_begin
    \/ sweep_scan
    \/ sweep_delete

SpecMalformed == InitMalformed /\ [][NextMalformed]_vars

-----------------------------------------------------------------------------
(* Either build serving status lookups and a status stream beside one job *)

NextRead ==
    \/ GenerateOnce
    \/ Lookup
    \/ StreamOpen
    \/ stream_poll
    \/ Check
    \/ Write
    \/ UpdGet
    \/ UpdSet
    \/ RedisFlip

SpecRead == InitAny /\ [][NextRead]_vars

\* C31: status lookups and status streams are read-only: a GET status, the
\* opening of a stream and a stream poll leave every field of the records
\* stored under every job id as they were, whichever store holds them
ReadsAreReadOnly ==
    [][((\E j \in JobIds : get_status(j) \/ stream_open(j)) \/ stream_poll) =>
          \A k \in JobIds : StoredUnder(k)' = StoredUnder(k)]_vars

-----------------------------------------------------------------------------
(* Either build serving one job, cancel requests and one status stream whose  *)
(* generator is resumed again and again: the loop at server.py:69-82 sleeps   *)
(* one second and polls, in a thread of its own (app.run(threaded=True))      *)

NextStreamLive ==
    \/ GenerateOnce
    \/ StreamOpen
    \/ stream_poll
    \/ Cancel
    \/ CancelSetStage
    \/ CancelSetMessage
    \/ CancelSetEta
    \/ CancelUpdGet
    \/ CancelUpdSet
    \/ Check
    \/ Write
    \/ UpdGet
    \/ UpdSet
    \/ RedisFlip

SpecStreamLive ==
    InitAny /\ [][NextStreamLive]_vars /\ WF_vars(stream_poll)

\* the record the stream's poll would read is terminal or absent
TerminalOrAbsent ==
    Rec(stream.job_id) = None \/ IsTerminal(Rec(stream.job_id))

-----------------------------------------------------------------------------
(* Either build with a clock that may advance while a Stage Runner is between *)
(* two statements: nothing in the code bounds the time a thread takes from    *)
(* its check to its write                                                      *)

TickBusy ==
    /\ cancelReq.pc = "idle"
    /\ sweeper.pc \in {"off", "dead", "sleeping"}
    /\ ~sweeper.due
    /\ now < MaxClock * ClockStep
    /\ now' = now + ClockStep
    /\ redis' = [j \in JobIds |->
                    IF expires[j] # 0 /\ expires[j] <= now' THEN None ELSE redis[j]]
    /\ expires' = [j \in JobIds |->
                    IF expires[j] # 0 /\ expires[j] <= now' THEN 0 ELSE expires[j]]
    /\ sweeper' = [sweeper EXCEPT !.due = (sweeper.pc = "sleeping")]
    /\ UNCHANGED <<program, USE_REDIS, redisUp, flips, heap, job_statuses, threads,
                   cancelReq, resp, stream, hist,
                   wf>>

NextWithdraw ==
    \/ GenerateOnce
    \/ Check
    \/ Write
    \/ UpdGet
    \/ UpdSet
    \/ TickBusy
    \/ sweep_begin
    \/ sweep_scan
    \/ sweep_delete

SpecWithdraw == InitAny /\ [][NextWithdraw]_vars

\* C33: a withdrawn record is never resurrected: a write of a Stage Runner
\* made when no store holds a record under its job id (the sweeper or the
\* Redis expiry has removed it) stores no record under that id
NoResurrection ==
    [][\A t \in Threads : \A j \in JobIds :
          ((RunnerWrite(t) \/ RunnerUpdSet(t))
              /\ threads[t].job_id = j /\ NoRecord(j)) => NoRecord(j)']_vars

\* C34: the Retention Sweeper keeps running for the lifetime of the process:
\* a record inserted into the map while the sweeper scans it never stops the
\* sweeper thread, so every later period still performs its scan
SweeperKeepsRunning == sweeper.pc # "dead"

-----------------------------------------------------------------------------
(* Either build with two jobs at a time: a generation under a new id and a    *)
(* refinement under a supplied id the server has not seen                      *)

RefineSupplied ==
    \E e \in JobIds \ (1..MaxFresh) : \E d \in FullDocs :
        hist[e].creates = 0 /\ refine_document(e, 0, d)

NextPair ==
    \/ Generate
    \/ RefineSupplied
    \/ Cancel
    \/ CancelSetStage
    \/ CancelSetMessage
    \/ CancelSetEta
    \/ CancelUpdGet
    \/ CancelUpdSet
    \/ Check
    \/ Write
    \/ UpdGet
    \/ UpdSet

SpecPair == InitAny /\ [][NextPair]_vars

\* a step of a Stage Runner of job a
RunnerStepOf(a) ==
    \E t \in Threads :
        /\ threads[t].job_id = a
        /\ RunnerCheck(t) \/ RunnerWrite(t) \/ RunnerUpdGet(t) \/ RunnerUpdSet(t)

\* a step of a cancel request for job a
CancelStepOf(a) ==
    \/ cancel_job(a)
    \/ /\ cancelReq.job_id = a
       /\ \/ CancelSetStage
          \/ CancelSetMessage
          \/ CancelSetEta
          \/ CancelUpdGet
          \/ CancelUpdSet

\* a creation request that stores its record under job a
CreateStepOf(a) ==
    \/ \E p \in TruthyPrompts : generate_document(p, a)
    \/ \E d \in FullDocs : refine_document(a, 0, d)

\* C35: jobs are isolated from each other: every Stage Runner write, cancel
\* request and creation request for job a leaves the records stored under
\* every other job id b as they were, in the map and in Redis
JobsIsolated ==
    [][\A a \in JobIds :
          (RunnerStepOf(a) \/ CancelStepOf(a) \/ CreateStepOf(a)) =>
              \A b \in JobIds \ {a} :
                  /\ (StoredUnder(b))' = StoredUnder(b)
                  /\ (job_statuses[b] = 0) <=> (job_statuses'[b] = 0)
                  /\ (redis[b] = None) <=> (redis'[b] = None)]_vars
BothJobsWritten ==
    \E a \in JobIds : \E b \in JobIds \ {a} :
        /\ hist[a].cancelled
        /\ hist[a].creates = 1
        /\ hist[b].creates = 1
        /\ \E t \in RunnerOf(b) : threads[t].phase = "done"
        /\ IsTerminal(Rec(a))
        /\ Rec(b) # None
        /\ Rec(b).stage = "completed"

-----------------------------------------------------------------------------
(* The task-workflow example: src/workflow_api_example.py *)

\* workflow_api_example.py:241-246 sample_logs, each line by what
\* parse_log_line looks at: the number of ' - ' separated parts, whether the
\* message holds 'Task completed' or 'Task started', whether the level holds
\* 'INFO', and whether the message matches \((\d+):([\d.]+)\)
SampleLogs == <<
    [parts |-> 4, task_completed |-> TRUE, task_started |-> FALSE,
     info |-> TRUE, score_match |-> FALSE],
    [parts |-> 4, task_completed |-> FALSE, task_started |-> FALSE,
     info |-> TRUE, score_match |-> FALSE],
    [parts |-> 4, task_completed |-> TRUE, task_started |-> FALSE,
     info |-> TRUE, score_match |-> TRUE],
    [parts |-> 4, task_completed |-> TRUE, task_started |-> FALSE,
     info |-> TRUE, score_match |-> TRUE] >>

\* workflow_api_example.py:30-73 parse_log_line: the status and whether a
\* score was found (None for a line of fewer than 4 parts)
parse_log_line(line) ==
    IF line.parts < 4 THEN None
    ELSE [status |-> IF line.task_completed THEN "completed"
                     ELSE IF line.task_started \/ line.info THEN "running"
                     ELSE "pending",
          scored |-> line.task_completed /\ line.score_match]

\* workflow_api_example.py:76-91 create_task_from_log
create_task_from_log(log_data) ==
    [status |-> log_data.status, scored |-> log_data.scored]

\* workflow_api_example.py:220-229 flatten_tasks(workflow['tasks'])
flatten_tasks(w) ==
    IF w.parent = "none" THEN <<>>
    ELSE <<[status |-> w.parent, scored |-> FALSE]>> \o w.children

WfUnchanged ==
    UNCHANGED <<program, USE_REDIS, redisUp, flips, heap, job_statuses, redis,
                expires, now, sweeper, threads, cancelReq, resp, stream, hist>>

\* workflow_api_example.py:94-135  POST /api/workflow/generate
generate_workflow ==
    /\ ~wf.stored
    /\ wf' = [wf EXCEPT !.stored = TRUE, !.status = "running",
                        !.proc = [pc |-> "parent", i |-> 0]]
    /\ WfUnchanged

\* workflow_api_example.py:248-260  process_workflow appends the parent task
process_workflow_parent ==
    /\ wf.proc.pc = "parent"
    /\ wf' = [wf EXCEPT !.parent = "running", !.proc = [pc |-> "logs", i |-> 1]]
    /\ WfUnchanged

\* workflow_api_example.py:263-273  one round of the loop over sample_logs
process_workflow_log ==
    LET log_data == parse_log_line(SampleLogs[wf.proc.i])
        next == IF wf.proc.i < Len(SampleLogs)
                THEN [pc |-> "logs", i |-> wf.proc.i + 1]
                ELSE [pc |-> "finish", i |-> 0]
    IN  /\ wf.proc.pc = "logs"
        /\ wf' = [wf EXCEPT
                    !.children = IF log_data = None THEN @
                                 ELSE Append(@, create_task_from_log(log_data)),
                    !.proc = next]
        /\ WfUnchanged

\* workflow_api_example.py:276-277  the parent task is marked completed and
\* the thread ends; workflow['status'] is not assigned
process_workflow_finish ==
    /\ wf.proc.pc = "finish"
    /\ wf' = [wf EXCEPT !.parent = "completed", !.proc = [pc |-> "done", i |-> 0]]
    /\ WfUnchanged

\* workflow_api_example.py:138-171  GET /api/workflow/<id>/tasks recalculates
\* the statistics and workflow['status'] in the stored dict
get_workflow_tasks ==
    LET all_tasks == flatten_tasks(wf)
        total     == Len(all_tasks)
        completed == Cardinality({n \in 1..total : all_tasks[n].status = "completed"})
        failed    == Cardinality({n \in 1..total : all_tasks[n].status = "failed"})
    IN  /\ wf.stored
        /\ wf' = [wf EXCEPT
                    !.status = IF completed = total /\ total > 0 THEN "completed"
                               ELSE IF failed > 0 THEN "failed" ELSE "running",
                    !.got = TRUE]
        /\ WfUnchanged

\* workflow_api_example.py:174-180  GET /api/workflow/<id>/stream of a stored
\* workflow: the generator starts
stream_workflow_updates ==
    /\ wf.stored
    /\ wf.events.pc = "idle"
    /\ wf' = [wf EXCEPT !.events.pc = "top"]
    /\ WfUnchanged

\* workflow_api_example.py:183-189  the top of the generator's loop: the
\* tasks are flattened into the list current_tasks
stream_workflow_round ==
    LET current_count == Len(flatten_tasks(wf))
    IN  /\ wf.events.pc = "top"
        /\ wf' = [wf EXCEPT
                    !.events.current_count = current_count,
                    !.events.afterDone = @ \/ wf.proc.pc = "done",
                    !.events.k = wf.events.last_task_count + 1,
                    !.events.pc = IF current_count > wf.events.last_task_count
                                  THEN "task_update" ELSE "task_complete"]
        /\ WfUnchanged

\* workflow_api_example.py:192-196  one 'task_update' event is yielded for
\* the next new task; after the last one last_task_count is set
stream_yield_update ==
    /\ wf.events.pc = "task_update"
    /\ wf' = IF wf.events.k < wf.events.current_count
             THEN [wf EXCEPT !.events.k = @ + 1]
             ELSE [wf EXCEPT !.events.last_task_count = wf.events.current_count,
                             !.events.k = 1,
                             !.events.pc = "task_complete"]
    /\ WfUnchanged

\* workflow_api_example.py:199-201  the loop over current_tasks: a
\* 'task_complete' event is yielded for each completed task with a score
stream_yield_complete ==
    /\ wf.events.pc = "task_complete"
    /\ wf' = IF wf.events.k < wf.events.current_count
             THEN [wf EXCEPT !.events.k = @ + 1]
             ELSE [wf EXCEPT !.events.k = 0, !.events.pc = "check"]
    /\ WfUnchanged

\* workflow_api_example.py:204-208  'workflow_complete' and break when
\* workflow['status'] is 'completed', else sleep one second and loop
stream_workflow_check ==
    /\ wf.events.pc = "check"
    /\ wf' = [wf EXCEPT
                !.events.complete = (wf.status = "completed"),
                !.events.pc = IF wf.status = "completed" THEN "closed" ELSE "top"]
    /\ WfUnchanged

InitWorkflow ==
    /\ program = "workflow_api_example"
    /\ USE_REDIS = FALSE
    /\ InitStore
    /\ sweeper = NoSweeper
    /\ InitRequests

NextWorkflow ==
    \/ generate_workflow
    \/ process_workflow_parent
    \/ process_workflow_log
    \/ process_workflow_finish
    \/ get_workflow_tasks
    \/ stream_workflow_updates
    \/ stream_workflow_round
    \/ stream_yield_update
    \/ stream_yield_complete
    \/ stream_workflow_check

SpecWorkflow == InitWorkflow /\ [][NextWorkflow]_vars

\* C36: in the task-workflow example a stream opened on a workflow emits
\* 'workflow_complete' and terminates after the background processor has
\* finished, without any GET of the workflow's tasks: once a round of the
\* stream's loop that started after the processor ended has made its test of
\* the workflow's status, the event has been sent and the stream is closed
WorkflowStreamCompletes ==
    (wf.proc.pc = "done" /\ wf.events.afterDone /\ ~wf.got
        /\ wf.events.pc \in {"top", "closed"}) =>
            (wf.events.complete /\ wf.events.pc = "closed")

====
